---- MODULE Spec2Model ----
(***************************************************************************)
(* A model of study_plan_generator.py: main() runs collect_user_input,     *)
(* calculate_weights, generate_daily_plan and print_plan once, in order.   *)
(*                                                                         *)
(* Numbers.  int values are integers.  A float is a record [cls, c]: a     *)
(* finite value of c hundredths, NaN or +infinity (float() parses "nan"    *)
(* and "inf").  A proportion weight / total_weight is kept as the exact    *)
(* quotient [num, den].  round(hours_per_day * proportion, 2) is taken on  *)
(* the exact product; an exact decimal tie goes to the even hundredth, as  *)
(* Python's round does on a tie the double holds exactly (0.75 * 0.5 =     *)
(* 0.375 -> 0.38).  For the hour values drawn by HoursInputs every other   *)
(* tie lies below the 0.25 threshold, where either neighbour is dropped.   *)
(***************************************************************************)
EXTENDS Integers, Sequences, FiniteSets, TLC

VARIABLES pc,            \* position of main(): the prompt being read or the stage reached
          lastInput,     \* the line input() returned last
          out,           \* the lines written to stdout since the previous input() returned
          days, hours_per_day, num_topics,     \* locals of collect_user_input
          i, name, difficulty, priority,       \* locals of its topic loop
          topics,        \* the list of topic dicts (meta["topics"] is this list)
          meta,          \* the record collect_user_input returned (days, hours_per_day)
          total_weight,  \* local of calculate_weights
          forced,        \* whether line 100 (total_weight = 1) was executed
          plan,          \* the dict generate_daily_plan returned
          shown,         \* what print_plan printed per day: name, hours, tip
          summary        \* the summary print_plan printed

vars == <<pc, lastInput, out, days, hours_per_day, num_topics, i, name,
          difficulty, priority, topics, meta, total_weight, forced, plan,
          shown, summary>>

-----------------------------------------------------------------------------
(* Bounds of the model *)

MaxDays == 2
MaxTopics == 2

-----------------------------------------------------------------------------
(* Values *)

Fin(c) == [cls |-> "fin", c |-> c]
NaN == [cls |-> "nan", c |-> 0]
Inf == [cls |-> "inf", c |-> 0]
NoFloat == [cls |-> "unbound", c |-> 0]
NoMeta == [days |-> 0, hours_per_day |-> NoFloat]

USE_LLM == FALSE

\* the lines the user may type at each prompt: entries that do not parse,
\* entries out of range, and accepted ones.  The accepted ratings are the two
\* ends of 1..5 and the threshold of the tips; the accepted hours are the
\* spec's examples (0.2, 4), a value that drops some topics and keeps others
\* (0.75), and the two non-finite floats.
DaysInputs == {"abc", "2.5", "0", "-1"} \cup {ToString(n) : n \in 1..MaxDays}
HoursInputs == {"abc", "0", "-0.5", "0.2", "0.75", "4", "nan", "inf"}
TopicCountInputs == {"abc", "2.5", "0", "-1"} \cup {ToString(n) : n \in 1..MaxTopics}
NameInputs == {"", " ", "A", " A ", "B"}
RatingInputs == {"abc", "0", "6", "1", "4", "5"}

-----------------------------------------------------------------------------
(* Conversions *)

IntLiterals == (-1..6) \cup (1..MaxDays) \cup (1..MaxTopics)
DecimalLiterals == {<<"-0.5", -50>>, <<"0.2", 20>>, <<"0.75", 75>>, <<"2.5", 250>>}
Words == {"", "A", "B"}
Padded(w) == {w, " " \o w, w \o " ", " " \o w \o " "}
StripTable == UNION {{<<s, w>> : s \in Padded(w)} : w \in Words}

\* str.strip(): the line without its leading and trailing blanks
strip(s) ==
    IF \E e \in StripTable : e[1] = s
    THEN (CHOOSE e \in StripTable : e[1] = s)[2]
    ELSE s

\* the decimal integer literals and the integers they denote
IntTable == {<<ToString(n), n>> : n \in IntLiterals}
IntStrings == {e[1] : e \in IntTable}

\* int(s): the integer a decimal integer literal denotes, else ValueError
int(s) ==
    IF s \in IntStrings
    THEN [ok |-> TRUE, v |-> (CHOOSE e \in IntTable : e[1] = s)[2]]
    ELSE [ok |-> FALSE, v |-> 0]

\* float(s): integer and decimal literals, "nan" and "inf", else ValueError
float(s) ==
    IF int(s).ok THEN [ok |-> TRUE, v |-> Fin(100 * int(s).v)]
    ELSE IF \E d \in DecimalLiterals : d[1] = s
    THEN [ok |-> TRUE, v |-> Fin((CHOOSE d \in DecimalLiterals : d[1] = s)[2])]
    ELSE IF s = "nan" THEN [ok |-> TRUE, v |-> NaN]
    ELSE IF s = "inf" THEN [ok |-> TRUE, v |-> Inf]
    ELSE [ok |-> FALSE, v |-> NoFloat]

\* f <= 0 on floats: false for NaN and for +infinity
FloatLeqZero(f) == f.cls = "fin" /\ f.c <= 0

\* f < 0.25 on floats: false for NaN and for +infinity
FloatLtQuarter(f) == f.cls = "fin" /\ f.c < 25

-----------------------------------------------------------------------------
(* Messages *)

Banner == "--------------------------"
PromptDays == "How many days do you have to study? "
PromptHours == "How many hours per day can you study on average? "
PromptTopicCount == "How many topics or courses do you want to study? "
PromptName == "  Name of topic (e.g., MATH2030 Chapter 3): "
PromptDifficulty == "  Difficulty (1-5): "
PromptPriority == "  Priority (1-5): "
MsgDays == "Please enter a positive whole number for days."
MsgHours == "Please enter a positive number for hours per day."
MsgTopicCount == "Please enter a positive whole number for number of topics."
MsgRating == "  Please enter a whole number from 1 to 5."
TopicsIntro == "Now enter your topics with difficulty and priority (1 = low, 5 = high)."
TopicHeader(k) == "Topic " \o ToString(k) \o ":"
DefaultName(k) == "Topic " \o ToString(k)

-----------------------------------------------------------------------------
(* collect_user_input *)

Init ==
    /\ pc = "days"
    /\ lastInput = ""
    /\ out = <<Banner, PromptDays>>
    /\ days = 0
    /\ hours_per_day = NoFloat
    /\ num_topics = 0
    /\ i = 0
    /\ name = ""
    /\ difficulty = 0
    /\ priority = 0
    /\ topics = <<>>
    /\ meta = NoMeta
    /\ total_weight = 0
    /\ forced = FALSE
    /\ plan = <<>>
    /\ shown = <<>>
    /\ summary = ""

\* lines 25-32: one pass of the days loop
read_days(line) ==
    LET r == int(line) IN
    /\ pc = "days"
    /\ lastInput' = line
    /\ IF ~r.ok
       THEN /\ out' = <<MsgDays, PromptDays>>
            /\ UNCHANGED <<pc, days>>
       ELSE IF r.v <= 0
       THEN /\ days' = r.v
            /\ out' = <<MsgDays, PromptDays>>
            /\ UNCHANGED pc
       ELSE /\ days' = r.v
            /\ pc' = "hours"
            /\ out' = <<PromptHours>>
    /\ UNCHANGED <<hours_per_day, num_topics, i, name, difficulty, priority,
                   topics, meta, total_weight, forced, plan, shown, summary>>

\* lines 34-41: one pass of the hours loop
read_hours(line) ==
    LET r == float(line) IN
    /\ pc = "hours"
    /\ lastInput' = line
    /\ IF ~r.ok
       THEN /\ out' = <<MsgHours, PromptHours>>
            /\ UNCHANGED <<pc, hours_per_day>>
       ELSE IF FloatLeqZero(r.v)
       THEN /\ hours_per_day' = r.v
            /\ out' = <<MsgHours, PromptHours>>
            /\ UNCHANGED pc
       ELSE /\ hours_per_day' = r.v
            /\ pc' = "num_topics"
            /\ out' = <<PromptTopicCount>>
    /\ UNCHANGED <<days, num_topics, i, name, difficulty, priority,
                   topics, meta, total_weight, forced, plan, shown, summary>>

\* lines 43-55: one pass of the topic count loop; on success the topic loop starts
read_num_topics(line) ==
    LET r == int(line) IN
    /\ pc = "num_topics"
    /\ lastInput' = line
    /\ IF ~r.ok
       THEN /\ out' = <<MsgTopicCount, PromptTopicCount>>
            /\ UNCHANGED <<pc, num_topics, i, topics>>
       ELSE IF r.v <= 0
       THEN /\ num_topics' = r.v
            /\ out' = <<MsgTopicCount, PromptTopicCount>>
            /\ UNCHANGED <<pc, i, topics>>
       ELSE /\ num_topics' = r.v
            /\ topics' = <<>>
            /\ i' = 0
            /\ out' = <<TopicsIntro, TopicHeader(1), PromptName>>
            /\ pc' = "name"
    /\ UNCHANGED <<days, hours_per_day, name, difficulty, priority,
                   meta, total_weight, forced, plan, shown, summary>>

\* line 56
read_name(line) ==
    /\ pc = "name"
    /\ lastInput' = line
    /\ name' = strip(line)
    /\ pc' = "difficulty"
    /\ out' = <<PromptDifficulty>>
    /\ UNCHANGED <<days, hours_per_day, num_topics, i, difficulty, priority,
                   topics, meta, total_weight, forced, plan, shown, summary>>

\* lines 57-64: one pass of the difficulty loop
read_difficulty(line) ==
    LET r == int(line) IN
    /\ pc = "difficulty"
    /\ lastInput' = line
    /\ IF ~r.ok
       THEN /\ out' = <<MsgRating, PromptDifficulty>>
            /\ UNCHANGED <<pc, difficulty>>
       ELSE IF r.v < 1 \/ r.v > 5
       THEN /\ difficulty' = r.v
            /\ out' = <<MsgRating, PromptDifficulty>>
            /\ UNCHANGED pc
       ELSE /\ difficulty' = r.v
            /\ pc' = "priority"
            /\ out' = <<PromptPriority>>
    /\ UNCHANGED <<days, hours_per_day, num_topics, i, name, priority,
                   topics, meta, total_weight, forced, plan, shown, summary>>

\* lines 74-80: the dict appended for topic i (0-based)
NewTopic(k, nm, d, p) ==
    [name |-> IF nm # "" THEN nm ELSE DefaultName(k + 1),
     difficulty |-> d,
     priority |-> p]

\* lines 65-86: one pass of the priority loop; on success the topic is appended
\* and the topic loop moves on or the function returns
read_priority(line) ==
    LET r == int(line) IN
    /\ pc = "priority"
    /\ lastInput' = line
    /\ IF ~r.ok
       THEN /\ out' = <<MsgRating, PromptPriority>>
            /\ UNCHANGED <<pc, priority, topics, i, meta>>
       ELSE IF r.v < 1 \/ r.v > 5
       THEN /\ priority' = r.v
            /\ out' = <<MsgRating, PromptPriority>>
            /\ UNCHANGED <<pc, topics, i, meta>>
       ELSE /\ priority' = r.v
            /\ topics' = Append(topics, NewTopic(i, name, difficulty, r.v))
            /\ IF i + 1 < num_topics
               THEN /\ i' = i + 1
                    /\ out' = <<TopicHeader(i + 2), PromptName>>
                    /\ pc' = "name"
                    /\ UNCHANGED meta
               ELSE /\ meta' = [days |-> days, hours_per_day |-> hours_per_day]
                    /\ pc' = "collected"
                    /\ out' = <<>>
                    /\ UNCHANGED i
    /\ UNCHANGED <<days, hours_per_day, num_topics, name, difficulty,
                   total_weight, forced, plan, shown, summary>>

-----------------------------------------------------------------------------
(* calculate_weights *)

RECURSIVE SumWeights(_)
\* line 98: sum(t["weight"] for t in topics)
SumWeights(ts) ==
    IF ts = <<>> THEN 0 ELSE Head(ts).weight + SumWeights(Tail(ts))

\* line 97 with the product in place of the sum
WeightProduct(t) == t.difficulty * t.priority

\* line 97: the weight of one topic
Weight(t) == t.difficulty + t.priority

\* lines 96-97: every topic dict gets its weight
WithWeights(ts) ==
    [k \in 1..Len(ts) |->
        [name |-> ts[k].name, difficulty |-> ts[k].difficulty,
         priority |-> ts[k].priority, weight |-> Weight(ts[k])]]

\* line 98 skipping the first topic
RawTotalSkipFirst(ts) == SumWeights(Tail(WithWeights(ts)))

\* line 98: the sum of the weights just assigned
RawTotal(ts) == SumWeights(WithWeights(ts))

\* lines 99-100: the divisor of the proportions
TotalWeight(ts) == IF RawTotal(ts) = 0 THEN 1 ELSE RawTotal(ts)

\* lines 101-102: every topic dict gets weight / total_weight
WithProportions(ws, total) ==
    [k \in 1..Len(ws) |->
        [name |-> ws[k].name, difficulty |-> ws[k].difficulty,
         priority |-> ws[k].priority, weight |-> ws[k].weight,
         proportion |-> [num |-> ws[k].weight, den |-> total]]]

\* lines 89-103 and line 228
calculate_weights ==
    /\ pc = "collected"
    /\ total_weight' = TotalWeight(topics)
    /\ forced' = (RawTotal(topics) = 0)
    /\ topics' = WithProportions(WithWeights(topics), TotalWeight(topics))
    /\ pc' = "weighted"
    /\ UNCHANGED <<lastInput, out, days, hours_per_day, num_topics, i, name,
                   difficulty, priority, meta, plan, shown, summary>>

-----------------------------------------------------------------------------
(* generate_daily_plan *)

\* n / d with the remainder dropped instead of rounded
RoundDown(n, d) == n \div d

\* the integer nearest to n / d (d > 0), an exact half going to the even one
RoundHalfEven(n, d) ==
    LET q == n \div d
        r == n % d
    IN  IF 2 * r < d THEN q
        ELSE IF 2 * r > d THEN q + 1
        ELSE IF q % 2 = 0 THEN q ELSE q + 1

\* line 116 rounding to one decimal place
TopicHoursOneDecimal(h, prop) ==
    IF h.cls = "fin" THEN Fin(10 * RoundHalfEven(h.c * prop.num, 10 * prop.den))
    ELSE IF h.cls = "inf" /\ prop.num > 0 THEN Inf
    ELSE NaN

\* line 116: round(hours_per_day * t["proportion"], 2)
TopicHours(h, prop) ==
    IF h.cls = "fin" THEN Fin(RoundHalfEven(h.c * prop.num, prop.den))
    ELSE IF h.cls = "inf" /\ prop.num > 0 THEN Inf
    ELSE NaN

RECURSIVE DayPlan(_, _, _)
\* lines 114-125: the session list of one day
DayPlan(day, h, ts) ==
    IF ts = <<>> THEN <<>>
    ELSE IF FloatLtQuarter(TopicHours(h, Head(ts).proportion))
         THEN DayPlan(day, h, Tail(ts))
         ELSE <<[name |-> Head(ts).name,
                 hours |-> TopicHours(h, Head(ts).proportion)]>>
              \o DayPlan(day, h, Tail(ts))

\* line 113 with range(days) in place of range(1, days + 1)
DailyPlanFromZero(d, h, ts) == [day \in 0..(d - 1) |-> DayPlan(day, h, ts)]

\* lines 112-127
DailyPlan(d, h, ts) == [day \in 1..d |-> DayPlan(day, h, ts)]

\* line 229
generate_daily_plan ==
    /\ pc = "weighted"
    /\ plan' = DailyPlan(meta.days, meta.hours_per_day, topics)
    /\ pc' = "planned"
    /\ UNCHANGED <<lastInput, out, days, hours_per_day, num_topics, i, name,
                   difficulty, priority, topics, meta, total_weight, forced,
                   shown, summary>>

-----------------------------------------------------------------------------
(* print_plan *)

\* lines 136, 138, 140, 141: the four tips, each the pieces its f-string joins
TipBothHigh(topic_name) ==
    <<"Start your session with ", topic_name,
      " while your focus is strongest. Break it into small chunks.">>
TipDifficult(topic_name) ==
    <<topic_name,
      " is challenging. Try active recall and short review blocks instead of long passive reading.">>
TipImportant(topic_name) ==
    <<topic_name,
      " matters a lot. Make sure you review it briefly at the end of the day.">>
TipSteady(topic_name) ==
    <<"Keep ", topic_name,
      " steady and consistent. A little progress each day will stack up.">>

\* lines 130-141 with > 4 in place of >= 4
simple_ai_tip_strict(topic_name, d, p) ==
    IF d > 4 /\ p > 4 THEN TipBothHigh(topic_name)
    ELSE IF d > 4 THEN TipDifficult(topic_name)
    ELSE IF p > 4 THEN TipImportant(topic_name)
    ELSE TipSteady(topic_name)

\* lines 130-141
simple_ai_tip(topic_name, d, p) ==
    IF d >= 4 /\ p >= 4 THEN TipBothHigh(topic_name)
    ELSE IF d >= 4 THEN TipDifficult(topic_name)
    ELSE IF p >= 4 THEN TipImportant(topic_name)
    ELSE TipSteady(topic_name)

\* lines 161-194
llm_generate_summary ==
    IF ~USE_LLM
    THEN "This plan balances your topics across the available days based on difficulty and priority. Start with the hardest or most important topics each day, and use short review blocks in the evening to lock things in."
    ELSE "LLM summary would appear here."

\* line 208: the position of the first topic with that name, 0 for None
Match(ts, nm) ==
    IF \E k \in 1..Len(ts) : ts[k].name = nm
    THEN CHOOSE k \in 1..Len(ts) :
            /\ ts[k].name = nm
            /\ \A j \in 1..(k - 1) : ts[j].name # nm
    ELSE 0

\* lines 208-212
TipFor(ts, s) ==
    IF Match(ts, s.name) # 0
    THEN simple_ai_tip(ts[Match(ts, s.name)].name,
                       ts[Match(ts, s.name)].difficulty,
                       ts[Match(ts, s.name)].priority)
    ELSE <<>>

\* lines 202-216: the session lines and tips of every day
Shown(pl, ts) ==
    [day \in DOMAIN pl |->
        [k \in 1..Len(pl[day]) |->
            [name |-> pl[day][k].name, hours |-> pl[day][k].hours,
             tip |-> TipFor(ts, pl[day][k])]]]

\* lines 197-223 and line 230
print_plan ==
    /\ pc = "planned"
    /\ shown' = Shown(plan, topics)
    /\ summary' = llm_generate_summary
    /\ out' = <<"Overall AI style summary:", llm_generate_summary,
                "Good luck, you got this">>
    /\ pc' = "done"
    /\ UNCHANGED <<lastInput, days, hours_per_day, num_topics, i, name,
                   difficulty, priority, topics, meta, total_weight, forced, plan>>

-----------------------------------------------------------------------------

Next ==
    \/ \E line \in DaysInputs : read_days(line)
    \/ \E line \in HoursInputs : read_hours(line)
    \/ \E line \in TopicCountInputs : read_num_topics(line)
    \/ \E line \in NameInputs : read_name(line)
    \/ \E line \in RatingInputs : read_difficulty(line)
    \/ \E line \in RatingInputs : read_priority(line)
    \/ calculate_weights
    \/ generate_daily_plan
    \/ print_plan

Spec == Init /\ [][Next]_vars

-----------------------------------------------------------------------------
(* Helpers of the properties *)

Returned == pc \in {"collected", "weighted", "planned", "done"}
Weighted == pc \in {"weighted", "planned", "done"}
Planned == pc \in {"planned", "done"}

\* a float that is a number greater than 0
PositiveNumber(f) == (f.cls = "fin" /\ f.c > 0) \/ f.cls = "inf"

\* a float that is at least 0.25
AtLeastQuarter(f) == (f.cls = "fin" /\ f.c >= 25) \/ f.cls = "inf"

\* what each validated prompt asks for, stated on the typed line
ValidEntry(field, line) ==
    CASE field = "days" -> int(line).ok /\ int(line).v > 0
      [] field = "hours" -> float(line).ok /\ PositiveNumber(float(line).v)
      [] field = "num_topics" -> int(line).ok /\ int(line).v > 0
      [] field \in {"difficulty", "priority"} -> int(line).ok /\ int(line).v \in 1..5
      [] OTHER -> TRUE

FieldMessage(field) ==
    CASE field = "days" -> MsgDays
      [] field = "hours" -> MsgHours
      [] field = "num_topics" -> MsgTopicCount
      [] OTHER -> MsgRating

FieldPrompt(field) ==
    CASE field = "days" -> PromptDays
      [] field = "hours" -> PromptHours
      [] field = "num_topics" -> PromptTopicCount
      [] field = "difficulty" -> PromptDifficulty
      [] OTHER -> PromptPriority

\* the fields accepted before the given prompt is reached
AcceptedBefore(field) ==
    CASE field = "days" -> <<topics>>
      [] field = "hours" -> <<days, topics>>
      [] field = "num_topics" -> <<days, hours_per_day, topics>>
      [] field = "difficulty" -> <<days, hours_per_day, num_topics, i, name, topics>>
      [] OTHER -> <<days, hours_per_day, num_topics, i, name, difficulty, topics>>

\* the four bands of difficulty and priority
Band(b, d, p) ==
    CASE b = 1 -> d >= 4 /\ p >= 4
      [] b = 2 -> d >= 4 /\ p < 4
      [] b = 3 -> p >= 4 /\ d < 4
      [] OTHER -> d < 4 /\ p < 4

\* the names a topic can get from NameInputs
TopicNames == (Words \ {""}) \cup {DefaultName(k) : k \in 1..MaxTopics}

\* simple_ai_tip on every name, difficulty and priority: one band, its tip
BandsOnAllRatings ==
    \A n \in TopicNames :
        /\ Cardinality({TipBothHigh(n), TipDifficult(n),
                        TipImportant(n), TipSteady(n)}) = 4
        /\ \A d, p \in 1..5 :
              /\ Cardinality({b \in 1..4 : Band(b, d, p)}) = 1
              /\ Band(1, d, p) => simple_ai_tip(n, d, p) = TipBothHigh(n)
              /\ Band(2, d, p) => simple_ai_tip(n, d, p) = TipDifficult(n)
              /\ Band(3, d, p) => simple_ai_tip(n, d, p) = TipImportant(n)
              /\ Band(4, d, p) => simple_ai_tip(n, d, p) = TipSteady(n)

\* exact arithmetic on quotients [num, den]
RatAdd(a, b) == [num |-> a.num * b.den + b.num * a.den, den |-> a.den * b.den]
RatEq(a, b) == a.num * b.den = b.num * a.den

RECURSIVE SumProportions(_)
SumProportions(ts) ==
    IF ts = <<>> THEN [num |-> 0, den |-> 1]
    ELSE RatAdd(Head(ts).proportion, SumProportions(Tail(ts)))

RECURSIVE SumOfSums(_)
\* the sum of difficulty + priority over the topics
SumOfSums(ts) ==
    IF ts = <<>> THEN 0
    ELSE Head(ts).difficulty + Head(ts).priority + SumOfSums(Tail(ts))

RECURSIVE SumHours(_)
\* the hundredths of the sessions of one day (finite hours only)
SumHours(ss) == IF ss = <<>> THEN 0 ELSE Head(ss).hours.c + SumHours(Tail(ss))

RECURSIVE KeptFrom(_, _, _)
\* the positions j >= k of the topics whose rounded hours are at least 0.25
KeptFrom(k, h, ts) ==
    IF k > Len(ts) THEN <<>>
    ELSE IF AtLeastQuarter(TopicHours(h, ts[k].proportion))
         THEN <<k>> \o KeptFrom(k + 1, h, ts)
         ELSE KeptFrom(k + 1, h, ts)

\* the positions of the topics that are not dropped by line 117, in input order
RECURSIVE NotDroppedFrom(_, _, _)
NotDroppedFrom(k, h, ts) ==
    IF k > Len(ts) THEN <<>>
    ELSE IF FloatLtQuarter(TopicHours(h, ts[k].proportion))
         THEN NotDroppedFrom(k + 1, h, ts)
         ELSE <<k>> \o NotDroppedFrom(k + 1, h, ts)

-----------------------------------------------------------------------------
(* Properties *)

\* C1: whenever collect_user_input has returned, the record holds days > 0,
\* hours_per_day a number > 0, exactly num_topics > 0 topics, and every
\* difficulty and priority in 1..5.
C1_ReturnedRecordValid ==
    Returned =>
        /\ meta.days > 0
        /\ PositiveNumber(meta.hours_per_day)
        /\ num_topics > 0
        /\ Len(topics) = num_topics
        /\ \A k \in 1..Len(topics) :
              /\ topics[k].difficulty \in 1..5
              /\ topics[k].priority \in 1..5

\* C2: an entry that fails its field's validation never advances to the next
\* field: the field's message is written, the same field is prompted again,
\* and the fields accepted earlier keep their values.
C2_InvalidEntryReprompts ==
    [][(pc \in {"days", "hours", "num_topics", "difficulty", "priority"}
          /\ ~ValidEntry(pc, lastInput'))
       => /\ pc' = pc
          /\ out' = <<FieldMessage(pc), FieldPrompt(pc)>>
          /\ AcceptedBefore(pc)' = AcceptedBefore(pc)]_vars

C4_WeightIsSum ==
    Weighted =>
        \A k \in 1..Len(topics) :
            /\ topics[k].weight = topics[k].difficulty + topics[k].priority
            /\ topics[k].weight \in 2..10

C4_Witness ==
    /\ pc = "weighted"
    /\ \E k \in 1..Len(topics) : topics[k].weight = 2
    /\ \E k \in 1..Len(topics) : topics[k].weight = 10

\* C5: the plan has exactly the keys 1..days and every day has the same
\* session list.
C5_DaysIdentical ==
    Planned =>
        /\ DOMAIN plan = 1..meta.days
        /\ \A d1, d2 \in DOMAIN plan : plan[d1] = plan[d2]

C5_Witness ==
    /\ pc = "planned"
    /\ meta.days = MaxDays
    /\ Len(plan[1]) = 2

\* C6: a topic has a session in a day's list exactly when its rounded hours
\* are at least 0.25; the sessions carry the rounded hours and keep the input
\* order; one topic with difficulty 1, priority 1 and 0.2 hours per day gives
\* an empty list every day.
C6_SessionIffQuarter ==
    Planned =>
        /\ \A day \in DOMAIN plan :
              LET kept == KeptFrom(1, meta.hours_per_day, topics) IN
              /\ Len(plan[day]) = Len(kept)
              /\ \A k \in 1..Len(kept) :
                    /\ k <= Len(plan[day])
                    /\ plan[day][k].name = topics[kept[k]].name
                    /\ plan[day][k].hours =
                          TopicHours(meta.hours_per_day, topics[kept[k]].proportion)
        /\ (/\ Len(topics) = 1
            /\ topics[1].difficulty = 1
            /\ topics[1].priority = 1
            /\ meta.hours_per_day = Fin(20))
           => \A day \in DOMAIN plan : plan[day] = <<>>

\* C7: 2 days, 4 hours per day, A (5, 5) and B (1, 1) give the weights 10 and
\* 2 and, on both days, A: 3.33 hours then B: 0.67 hours.
C7_Example ==
    (/\ Planned
     /\ meta.days = 2
     /\ meta.hours_per_day = Fin(400)
     /\ Len(topics) = 2
     /\ topics[1].name = "A" /\ topics[1].difficulty = 5 /\ topics[1].priority = 5
     /\ topics[2].name = "B" /\ topics[2].difficulty = 1 /\ topics[2].priority = 1)
    => /\ topics[1].weight = 10
       /\ topics[2].weight = 2
       /\ plan = <<
             <<[name |-> "A", hours |-> Fin(333)], [name |-> "B", hours |-> Fin(67)]>>,
             <<[name |-> "A", hours |-> Fin(333)], [name |-> "B", hours |-> Fin(67)]>> >>

C7_Witness ==
    /\ pc = "planned"
    /\ meta.days = 2
    /\ meta.hours_per_day = Fin(400)
    /\ Len(topics) = 2
    /\ topics[1].name = "A" /\ topics[1].difficulty = 5 /\ topics[1].priority = 5
    /\ topics[2].name = "B" /\ topics[2].difficulty = 1 /\ topics[2].priority = 1

\* C8: for every difficulty and priority in 1..5 exactly one of the four bands
\* holds and simple_ai_tip returns the tip of that band; the four tips differ;
\* every topic the collector produces has its name and ratings in that range.
C8_TipBands ==
    /\ BandsOnAllRatings
    /\ \A k \in 1..Len(topics) :
          /\ topics[k].name \in TopicNames
          /\ topics[k].difficulty \in 1..5
          /\ topics[k].priority \in 1..5

C8_Witness ==
    /\ pc = "done"
    /\ Len(topics) = 2
    /\ topics[1].difficulty = 4 /\ topics[1].priority = 1
    /\ topics[2].difficulty = 1 /\ topics[2].priority = 4
    /\ Len(shown[1]) = 2
    /\ shown[1][1].tip = TipDifficult(topics[1].name)
    /\ shown[1][2].tip = TipImportant(topics[2].name)

\* C9: the tip printed under a session is the tip of the topic the session
\* was allocated to.
C9_TipOfOwnTopic ==
    pc = "done" =>
        \A day \in DOMAIN shown :
            LET own == NotDroppedFrom(1, meta.hours_per_day, topics) IN
            /\ Len(shown[day]) = Len(own)
            /\ \A k \in 1..Len(own) :
                  /\ k <= Len(shown[day])
                  /\ shown[day][k].tip =
                        simple_ai_tip(topics[own[k]].name,
                                      topics[own[k]].difficulty,
                                      topics[own[k]].priority)

====
